---- MODULE Spec2Model ----
(***************************************************************************)
(* Model of the Minesweeper knowledge base of src/minesweeper.py: the      *)
(* Sentence class, the MinesweeperAI store (moves_made, mines, safes,      *)
(* knowledge) and its operations, driven by a ground-truth Minesweeper     *)
(* board.                                                                  *)
(***************************************************************************)
EXTENDS Integers, Sequences, FiniteSets, TLC

\* ------------------------------------------------------------ parameters
\* The board of the model has Height rows and Width columns and holds at
\* most MaxMines mines; at most MaxObs observations are made of it.
Height == 2
Width == 3
MaxMines == 3
MaxObs == 3
MaxLen == 3

VARIABLES
    board,          \* Minesweeper.mines: the ground truth
    moves_made,     \* MinesweeperAI.moves_made
    mines,          \* MinesweeperAI.mines
    safes,          \* MinesweeperAI.safes
    knowledge,      \* MinesweeperAI.knowledge, a sequence of sentences
    raised,         \* the exception that ended the last operation, or "none"
    nobs,           \* number of add_knowledge, mark_mine and mark_safe calls made
    last,           \* the last operation: its name, arguments and return value
    reapplied,      \* the last two operations were both direct apply_knowledge calls
    repeated,       \* the last two operations were add_knowledge calls with the
                    \* same cell and count
    pre,            \* last add_knowledge: the store when apply_knowledge was called;
                    \* last mark_mine or mark_safe: the store when it was called
    closed,         \* last add_knowledge: the store when apply_knowledge returned
    prev_closed,    \* the value of closed before the latest run of apply_knowledge
    new_knowledge,  \* last add_knowledge: what generate_new_knowledge returned
    a_sentence      \* a Sentence object of its own, outside the store

vars == <<board, moves_made, mines, safes, knowledge, raised,
          nobs, last, reapplied, repeated, pre, closed, prev_closed,
          new_knowledge, a_sentence>>

\* ------------------------------------------------------------- the board
\* A cell is a (row, column) pair; cell[1] is the row, cell[2] the column.
Cells == (0 .. Height - 1) \X (0 .. Width - 1)

\* Minesweeper.__init__: a board is the set of its mines.
Boards == {b \in SUBSET Cells : Cardinality(b) <= MaxMines}

\* Minesweeper.is_mine
is_mine(b, cell) == cell \in b

\* Minesweeper.nearby_mines: mines within one row and column of the cell,
\* the cell itself excluded, out-of-bounds positions ignored.
nearby_mines(b, cell) ==
    Cardinality({c \in (cell[1] - 1 .. cell[1] + 1) \X (cell[2] - 1 .. cell[2] + 1) :
                    /\ c # cell
                    /\ 0 <= c[1] /\ c[1] < Height /\ 0 <= c[2] /\ c[2] < Width
                    /\ c \in b})

\* ------------------------------------------------------------- Sentence
\* Python's None / a value: the empty set / a singleton holding the value.
None == {}
Some(v) == {v}

\* Sentence.__init__
Sentence(cells, count) == [cells |-> cells, count |-> count]

\* Sentence.__eq__
Sentence_eq(s, other) == s.cells = other.cells /\ s.count = other.count

\* known_mines with the comparison loosened to >=.
known_mines_loose(s) ==
    IF Cardinality(s.cells) >= s.count THEN {s.cells} ELSE {}

\* known_mines answering None for a sentence without cells.
known_mines_nonempty(s) ==
    IF Cardinality(s.cells) = s.count /\ s.cells # {} THEN {s.cells} ELSE {}

\* Sentence.known_mines
known_mines(s) ==
    IF Cardinality(s.cells) = s.count THEN Some(s.cells) ELSE None

\* known_safes testing the number of cells instead of the count.
known_safes_by_size(s) ==
    IF Cardinality(s.cells) = 0 THEN {s.cells} ELSE {}

\* Sentence.known_safes
known_safes(s) ==
    IF s.count = 0 THEN Some(s.cells) ELSE None

\* Sentence.mark_mine without the decrement of the count.
Sentence_mark_mine_keeping_count(s, cell) ==
    IF cell \in s.cells
    THEN [cells |-> s.cells \ {cell}, count |-> s.count]
    ELSE s

\* Sentence.mark_mine
Sentence_mark_mine(s, cell) ==
    IF cell \in s.cells
    THEN [cells |-> s.cells \ {cell}, count |-> s.count - 1]
    ELSE s

\* Sentence.mark_safe
Sentence_mark_safe(s, cell) ==
    IF cell \in s.cells
    THEN [cells |-> s.cells \ {cell}, count |-> s.count]
    ELSE s

\* ------------------------------------------------------- MinesweeperAI
\* The store as a value: the four fields of MinesweeperAI plus the exception
\* (if any) that ended the operation working on it.
Store(mm, mi, sa, kn, ex) ==
    [moves_made |-> mm, mines |-> mi, safes |-> sa, knowledge |-> kn, raised |-> ex]

\* MinesweeperAI.__init__
EmptyStore == Store({}, {}, {}, <<>>, "none")

\* A mark_mine that keeps only the latest mine.
mark_mine_forgetting(st, cell) ==
    [st EXCEPT !.mines = {cell},
               !.knowledge = [i \in DOMAIN @ |->
                                 IF cell \in @[i].cells
                                 THEN Sentence_mark_mine(@[i], cell)
                                 ELSE @[i]]]

\* MinesweeperAI.mark_mine
mark_mine(st, cell) ==
    [st EXCEPT !.mines = @ \cup {cell},
               !.knowledge = [i \in DOMAIN @ |->
                                 IF cell \in @[i].cells
                                 THEN Sentence_mark_mine(@[i], cell)
                                 ELSE @[i]]]

\* A mark_safe that keeps only the latest safe cell.
mark_safe_forgetting(st, cell) ==
    [st EXCEPT !.safes = {cell},
               !.knowledge = [i \in DOMAIN @ |->
                                 IF cell \in @[i].cells
                                 THEN Sentence_mark_safe(@[i], cell)
                                 ELSE @[i]]]

\* MinesweeperAI.mark_safe
mark_safe(st, cell) ==
    [st EXCEPT !.safes = @ \cup {cell},
               !.knowledge = [i \in DOMAIN @ |->
                                 IF cell \in @[i].cells
                                 THEN Sentence_mark_safe(@[i], cell)
                                 ELSE @[i]]]

\* The loop `for mine in mine_cells: self.mark_mine(mine)` of apply_knowledge.
RECURSIVE mark_mines(_, _)
mark_mines(st, cells) ==
    IF cells = {} THEN st
    ELSE LET c == CHOOSE x \in cells : TRUE
         IN  mark_mines(mark_mine(st, c), cells \ {c})

\* The loop `for safe in safe_cells: self.mark_safe(safe)` of apply_knowledge.
RECURSIVE mark_safes(_, _)
mark_safes(st, cells) ==
    IF cells = {} THEN st
    ELSE LET c == CHOOSE x \in cells : TRUE
         IN  mark_safes(mark_safe(st, c), cells \ {c})

\* The in-bounds positions within one row and column of the cell (the cell
\* itself included when it is on the board).
neighbourhood(cell) ==
    {c \in (cell[1] - 1 .. cell[1] + 1) \X (cell[2] - 1 .. cell[2] + 1) :
        0 <= c[1] /\ c[1] < Height /\ 0 <= c[2] /\ c[2] < Width}

\* get_neighbouring_cells without the diagonal neighbours.
get_neighbouring_cells_orthogonal(cell) ==
    {c \in neighbourhood(cell) : c # cell /\ (c[1] = cell[1] \/ c[2] = cell[2])}

\* A removal of the centre cell that never raises (set.discard).
get_neighbouring_cells_discards(cell) == FALSE

\* MinesweeperAI.get_neighbouring_cells; set.remove raises KeyError when the
\* centre cell is not among the collected positions.
get_neighbouring_cells_raises(cell) == cell \notin neighbourhood(cell)
get_neighbouring_cells(cell) == neighbourhood(cell) \ {cell}

\* get_hidden_neighbouring_cells without the removal of the moves made.
get_hidden_neighbouring_cells_all(st, cell) ==
    get_neighbouring_cells(cell)

\* MinesweeperAI.get_hidden_neighbouring_cells
get_hidden_neighbouring_cells(st, cell) ==
    get_neighbouring_cells(cell) \ st.moves_made

\* list.remove(x): drops the first item equal to x.
FirstEqual(seq, s) ==
    CHOOSE i \in DOMAIN seq :
        /\ Sentence_eq(seq[i], s)
        /\ \A j \in 1 .. i - 1 : ~Sentence_eq(seq[j], s)

\* A removal that drops the first equal item and every item after it.
ListRemove_truncating(seq, s) ==
    LET i == FirstEqual(seq, s)
    IN  SubSeq(seq, 1, i - 1)

\* A removal that leaves the list as it is.
ListRemove_nothing(seq, s) == seq

\* list.remove(x)
ListRemove(seq, s) ==
    LET i == FirstEqual(seq, s)
    IN  SubSeq(seq, 1, i - 1) \o SubSeq(seq, i + 1, Len(seq))

\* The body of the `for sentence in knowledge_copy` loop of apply_knowledge
\* for a sentence with cells: the marking of its known mines and safes.
apply_sentence(st, sentence) ==
    LET st1 == IF known_mines(sentence) # None
               THEN mark_mines(st, sentence.cells) ELSE st
    IN  IF known_safes(sentence) # None
        THEN mark_safes(st1, sentence.cells) ELSE st1

\* apply_pass skipping the sentences with no cells instead of removing them.
RECURSIVE apply_pass_skip_empty(_, _, _, _)
apply_pass_skip_empty(st, knowledge_copy, i, repeat_flag) ==
    IF i > Len(knowledge_copy)
    THEN [st |-> st, repeat_flag |-> repeat_flag]
    ELSE IF Cardinality(knowledge_copy[i].cells) = 0
         THEN apply_pass_skip_empty(st, knowledge_copy, i + 1, repeat_flag)
         ELSE apply_pass_skip_empty(apply_sentence(st, knowledge_copy[i]),
                                    knowledge_copy, i + 1,
                                    \/ repeat_flag
                                    \/ known_mines(knowledge_copy[i]) # {}
                                    \/ known_safes(knowledge_copy[i]) # {})

\* One run of the `for sentence in knowledge_copy` loop of apply_knowledge,
\* from snapshot position i on: the store and the repeat flag it ends with.
RECURSIVE apply_pass(_, _, _, _)
apply_pass(st, knowledge_copy, i, repeat_flag) ==
    IF i > Len(knowledge_copy)
    THEN [st |-> st, repeat_flag |-> repeat_flag]
    ELSE LET sentence == knowledge_copy[i]
         IN  IF Cardinality(sentence.cells) = 0
             THEN IF \E k \in DOMAIN st.knowledge : Sentence_eq(st.knowledge[k], sentence)
                  THEN [st |-> [st EXCEPT !.knowledge = ListRemove(@, sentence)],
                        repeat_flag |-> TRUE]
                  ELSE [st |-> [st EXCEPT !.raised = "ValueError"],
                        repeat_flag |-> FALSE]
             ELSE apply_pass(apply_sentence(st, sentence), knowledge_copy, i + 1,
                             \/ repeat_flag
                             \/ known_mines(sentence) # None
                             \/ known_safes(sentence) # None)

\* MinesweeperAI.apply_knowledge: passes over a snapshot of the knowledge
\* list, repeated (the recursive call) while a pass sets the flag.
RECURSIVE apply_knowledge(_)

\* apply_knowledge without the recursive call: one pass only.
apply_once(r) == r.st

\* The end of apply_knowledge: the recursive call when the flag is set.
apply_again(r) ==
    IF r.st.raised # "none" THEN r.st
    ELSE IF r.repeat_flag THEN apply_knowledge(r.st)
    ELSE r.st
apply_knowledge(st) == apply_again(apply_pass(st, st.knowledge, 1, FALSE))

\* The inner loop with the difference of the cells taken the wrong way round.
RECURSIVE generate_inner_swapped_cells(_, _, _)
generate_inner_swapped_cells(kn, i, j) ==
    IF j > Len(kn) THEN <<>>
    ELSE (IF /\ ~Sentence_eq(kn[i], kn[j])
             /\ kn[i].cells \subseteq kn[j].cells
             /\ Cardinality(kn[i].cells \ kn[j].cells) > 0
          THEN <<[cells |-> kn[i].cells \ kn[j].cells,
                  count |-> kn[j].count - kn[i].count]>>
          ELSE <<>>)
         \o generate_inner_swapped_cells(kn, i, j + 1)

\* The inner loop with the difference of the counts taken the wrong way round.
RECURSIVE generate_inner_swapped_count(_, _, _)
generate_inner_swapped_count(kn, i, j) ==
    IF j > Len(kn) THEN <<>>
    ELSE (IF /\ ~Sentence_eq(kn[i], kn[j])
             /\ kn[i].cells \subseteq kn[j].cells
             /\ Cardinality(kn[j].cells \ kn[i].cells) > 0
          THEN <<[cells |-> kn[j].cells \ kn[i].cells,
                  count |-> kn[i].count - kn[j].count]>>
          ELSE <<>>)
         \o generate_inner_swapped_count(kn, i, j + 1)

\* The inner loop `for sentence_2 in self.knowledge` of generate_new_knowledge.
RECURSIVE generate_inner(_, _, _)
generate_inner(kn, i, j) ==
    IF j > Len(kn) THEN <<>>
    ELSE LET sentence_1 == kn[i]
             sentence_2 == kn[j]
             new_cells == sentence_2.cells \ sentence_1.cells
             new_count == sentence_2.count - sentence_1.count
         IN  (IF /\ ~Sentence_eq(sentence_1, sentence_2)
                 /\ sentence_1.cells \subseteq sentence_2.cells
                 /\ Cardinality(new_cells) > 0
              THEN <<Sentence(new_cells, new_count)>>
              ELSE <<>>)
             \o generate_inner(kn, i, j + 1)

\* The outer loop `for sentence_1 in self.knowledge`.
RECURSIVE generate_outer(_, _)
generate_outer(kn, i) ==
    IF i > Len(kn) THEN <<>>
    ELSE generate_inner(kn, i, 1) \o generate_outer(kn, i + 1)

\* generate_new_knowledge returning nothing.
generate_nothing(st) == <<>>

\* MinesweeperAI.generate_new_knowledge
generate_new_knowledge(st) == generate_outer(st.knowledge, 1)

\* add_knowledge up to the call of apply_knowledge: the move is recorded,
\* the cell marked safe, the new sentence appended. The KeyError of
\* get_neighbouring_cells ends the call after the first two steps.
add_knowledge_intake(st, cell, count) ==
    LET st1 == [st EXCEPT !.moves_made = @ \cup {cell}]
        st2 == mark_safe(st1, cell)
        cells == get_hidden_neighbouring_cells(st2, cell)
    IN  IF get_neighbouring_cells_raises(cell)
        THEN [st2 EXCEPT !.raised = "KeyError"]
        ELSE IF Cardinality(cells) > 0
        THEN [st2 EXCEPT !.knowledge = Append(@, Sentence(cells, count))]
        ELSE st2

\* The end of add_knowledge: `self.knowledge += new_knowledge`.
add_knowledge_finish(st, new) == [st EXCEPT !.knowledge = @ \o new]

\* MinesweeperAI.make_safe_move: the cells it may return.
safe_move_candidates(st) == st.safes \ st.moves_made

\* MinesweeperAI.make_random_move: the cells it may return.
random_move_candidates(st) ==
    LET known_cells == (st.safes \cup st.mines) \cup st.moves_made
        unknown_cells == {c \in (0 .. Height - 1) \X (0 .. Width - 1) : TRUE}
    IN  unknown_cells \ known_cells

\* ------------------------------------------------------------ the system
\* The store an operation starts on.
Cur == Store(moves_made, mines, safes, knowledge, "none")

Op(op, cell, count, ret) == [op |-> op, cell |-> cell, count |-> count, ret |-> ret]

Init ==
    /\ board \in Boards
    /\ moves_made = {}
    /\ mines = {}
    /\ safes = {}
    /\ knowledge = <<>>
    /\ raised = "none"
    /\ nobs = 0
    /\ last = Op("init", None, 0, None)
    /\ reapplied = FALSE
    /\ repeated = FALSE
    /\ pre = EmptyStore
    /\ closed = EmptyStore
    /\ prev_closed = EmptyStore
    /\ new_knowledge = <<>>
    /\ a_sentence = Sentence({}, 0)

\* The fields of the store become those of st.
StoreBecomes(st) ==
    /\ moves_made' = st.moves_made
    /\ mines' = st.mines
    /\ safes' = st.safes
    /\ knowledge' = st.knowledge
    /\ raised' = st.raised

\* ai.add_knowledge(cell, count), from the first line to the return or to
\* the exception that ends it.
AddKnowledgeCall(cell, count) ==
    \E st0 \in {add_knowledge_intake(Cur, cell, count)} :
        /\ pre' = st0
        /\ last' = Op("add_knowledge", Some(cell), count, None)
        /\ repeated' = (last = Op("add_knowledge", Some(cell), count, None))
        /\ reapplied' = FALSE
        /\ IF st0.raised # "none"
           THEN /\ StoreBecomes(st0)
                /\ UNCHANGED <<closed, prev_closed, new_knowledge>>
           ELSE \E st1 \in {apply_knowledge(st0)} :
                \E new \in {generate_new_knowledge(st1)} :
                    /\ StoreBecomes(add_knowledge_finish(st1, new))
                    /\ closed' = st1
                    /\ new_knowledge' = new
                    /\ prev_closed' = closed

\* ai.add_knowledge(cell, game.nearby_mines(cell)) for a cell that is not a
\* mine of the board.
AddKnowledge ==
    /\ nobs < MaxObs
    /\ \E cell \in Cells :
        /\ ~is_mine(board, cell)
        /\ AddKnowledgeCall(cell, nearby_mines(board, cell))
    /\ nobs' = nobs + 1
    /\ UNCHANGED <<board, a_sentence>>

\* A direct call of ai.apply_knowledge().
ApplyKnowledge ==
    /\ StoreBecomes(apply_knowledge(Cur))
    /\ last' = Op("apply_knowledge", None, 0, None)
    /\ reapplied' = (last.op = "apply_knowledge")
    /\ repeated' = FALSE
    /\ prev_closed' = closed
    /\ UNCHANGED <<a_sentence, board, nobs, pre, closed, new_knowledge>>

\* A make_safe_move that pops the cell from self.safes itself instead of
\* from the difference set.
MakeSafeMove_popping ==
    /\ LET safe_cells == safe_move_candidates(Cur)
       IN  IF Cardinality(safe_cells) > 0
           THEN \E safe \in safe_cells :
                   /\ last' = Op("make_safe_move", None, 0, Some(safe))
                   /\ safes' = safes \ {safe}
           ELSE /\ last' = Op("make_safe_move", None, 0, None)
                /\ safes' = safes
    /\ raised' = "none"
    /\ reapplied' = FALSE
    /\ repeated' = FALSE
    /\ UNCHANGED <<a_sentence, board, moves_made, mines, knowledge,
                   nobs, pre, closed, prev_closed, new_knowledge>>

\* ai.make_safe_move(): set.pop() returns an arbitrary element.
MakeSafeMove ==
    /\ LET safe_cells == safe_move_candidates(Cur)
       IN  IF Cardinality(safe_cells) > 0
           THEN \E safe \in safe_cells : last' = Op("make_safe_move", None, 0, Some(safe))
           ELSE last' = Op("make_safe_move", None, 0, None)
    /\ raised' = "none"
    /\ reapplied' = FALSE
    /\ repeated' = FALSE
    /\ UNCHANGED <<a_sentence, board, moves_made, mines, safes, knowledge,
                   nobs, pre, closed, prev_closed, new_knowledge>>

\* ai.make_random_move(): random.sample(unknown_cells, 1) is handed a set.
\* Up to Python 3.10 it returns any one of the cells; from Python 3.11 on
\* it raises TypeError ("Population must be a sequence").
MakeRandomMove ==
    /\ LET unknown_cells == random_move_candidates(Cur)
       IN  IF Cardinality(unknown_cells) > 0
           THEN \/ /\ \E c \in unknown_cells :
                         last' = Op("make_random_move", None, 0, Some(c))
                   /\ raised' = "none"
                \/ /\ last' = Op("make_random_move", None, 0, None)
                   /\ raised' = "TypeError"
           ELSE /\ last' = Op("make_random_move", None, 0, None)
                /\ raised' = "none"
    /\ reapplied' = FALSE
    /\ repeated' = FALSE
    /\ UNCHANGED <<a_sentence, board, moves_made, mines, safes, knowledge,
                   nobs, pre, closed, prev_closed, new_knowledge>>

\* Observations of the board, and direct runs of the closure procedure.
Next ==
    \/ AddKnowledge
    \/ ApplyKnowledge

Spec == Init /\ [][Next]_vars

\* Observations of the board interleaved with the move queries.
NextMoves ==
    \/ AddKnowledge
    \/ MakeSafeMove
    \/ MakeRandomMove

SpecMoves == Init /\ [][NextMoves]_vars

\* A direct call of ai.mark_mine(cell) with any cell of the board.
MarkMine ==
    /\ nobs < MaxObs
    /\ \E cell \in Cells :
        /\ StoreBecomes(mark_mine(Cur, cell))
        /\ last' = Op("mark_mine", Some(cell), 0, None)
    /\ pre' = Cur
    /\ nobs' = nobs + 1
    /\ reapplied' = FALSE
    /\ repeated' = FALSE
    /\ UNCHANGED <<a_sentence, board, closed, prev_closed, new_knowledge>>

\* A direct call of ai.mark_safe(cell) with any cell of the board.
MarkSafe ==
    /\ nobs < MaxObs
    /\ \E cell \in Cells :
        /\ StoreBecomes(mark_safe(Cur, cell))
        /\ last' = Op("mark_safe", Some(cell), 0, None)
    /\ pre' = Cur
    /\ nobs' = nobs + 1
    /\ reapplied' = FALSE
    /\ repeated' = FALSE
    /\ UNCHANGED <<a_sentence, board, closed, prev_closed, new_knowledge>>

\* Every operation of the store, in any order.
NextOps ==
    \/ AddKnowledge
    \/ ApplyKnowledge
    \/ MarkMine
    \/ MarkSafe
    \/ MakeSafeMove
    \/ MakeRandomMove

SpecOps == Init /\ [][NextOps]_vars

\* Sentences of any cell set of the board and any count, also counts that
\* no board can produce.
AnySentences ==
    {Sentence(cells, count) : cells \in SUBSET Cells,
                              count \in -1 .. Cardinality(Cells)}

\* A Sentence object constructed on its own.
InitSentence ==
    /\ board = {}
    /\ moves_made = {}
    /\ mines = {}
    /\ safes = {}
    /\ knowledge = <<>>
    /\ raised = "none"
    /\ nobs = 0
    /\ last = Op("init", None, 0, None)
    /\ reapplied = FALSE
    /\ repeated = FALSE
    /\ pre = EmptyStore
    /\ closed = EmptyStore
    /\ prev_closed = EmptyStore
    /\ new_knowledge = <<>>
    /\ a_sentence \in AnySentences

\* sentence.known_mines()
KnownMines ==
    /\ last' = Op("known_mines", None, 0, known_mines(a_sentence))
    /\ UNCHANGED <<board, moves_made, mines, safes, knowledge, raised, nobs,
                   reapplied, repeated, pre, closed, prev_closed,
                   new_knowledge, a_sentence>>

\* sentence.known_safes()
KnownSafes ==
    /\ last' = Op("known_safes", None, 0, known_safes(a_sentence))
    /\ UNCHANGED <<board, moves_made, mines, safes, knowledge, raised, nobs,
                   reapplied, repeated, pre, closed, prev_closed,
                   new_knowledge, a_sentence>>

\* The queries of a Sentence, in any order.
NextSentence ==
    \/ KnownMines
    \/ KnownSafes

SpecSentence == InitSentence /\ [][NextSentence]_vars

\* The closure procedure on its own, pass by pass, on any list of sentences
\* with 0 <= count <= number of cells. The sentences range over the cells
\* of one column of the board.
ClosureCells == {c \in Cells : c[2] = 0}

BoundedSentences ==
    {s \in {Sentence(cells, count) : cells \in SUBSET ClosureCells,
                                     count \in 0 .. Cardinality(ClosureCells)} :
        s.count <= Cardinality(s.cells)}

KnowledgeLists == UNION {[1 .. n -> BoundedSentences] : n \in 0 .. MaxLen}

\* apply_knowledge has just been called on a store holding such a list.
InitClosure ==
    /\ board = {}
    /\ moves_made = {}
    /\ mines = {}
    /\ safes = {}
    /\ knowledge \in KnowledgeLists
    /\ raised = "none"
    /\ nobs = 0
    /\ last = Op("call_apply_knowledge", None, 0, None)
    /\ reapplied = FALSE
    /\ repeated = FALSE
    /\ pre = Store({}, {}, {}, knowledge, "none")
    /\ closed = EmptyStore
    /\ prev_closed = EmptyStore
    /\ new_knowledge = <<>>
    /\ a_sentence = Sentence({}, 0)

\* One activation of apply_knowledge: the snapshot, the loop over it, and
\* the test of the flag. The next activation (the recursive call) follows
\* when the flag is set; the procedure has returned when it is not.
Pass ==
    /\ raised = "none"
    /\ \/ last.op = "call_apply_knowledge"
       \/ last = Op("pass", None, 0, Some(TRUE))
    /\ \E r \in {apply_pass(Cur, knowledge, 1, FALSE)} :
          /\ StoreBecomes(r.st)
          /\ last' = Op("pass", None, 0, Some(r.repeat_flag))
    /\ UNCHANGED <<board, nobs, reapplied, repeated, pre, closed, prev_closed,
                   new_knowledge, a_sentence>>

SpecClosure == InitClosure /\ [][Pass]_vars /\ WF_vars(Pass)

\* The positions next to the board that are not on it.
OutCells == ((-1 .. Height) \X (-1 .. Width)) \ Cells

\* ai.add_knowledge(cell, game.nearby_mines(cell)) for a cell that is not on
\* the board.
AddKnowledgeOutside ==
    /\ nobs < MaxObs
    /\ \E cell \in OutCells :
        AddKnowledgeCall(cell, nearby_mines(board, cell))
    /\ nobs' = nobs + 1
    /\ UNCHANGED <<board, a_sentence>>

\* Observations of the board interleaved with calls for cells off the board.
NextErr ==
    \/ AddKnowledge
    \/ AddKnowledgeOutside

SpecErr == Init /\ [][NextErr]_vars

\* ================================================================ claims
\* A sentence is true of the board when its count is the number of mines
\* among its cells.
TrueOfBoard(s) == Cardinality(s.cells \cap board) = s.count

Range(seq) == {seq[i] : i \in DOMAIN seq}
Occurrences(seq, e) == Cardinality({i \in DOMAIN seq : seq[i] = e})

\* The board cells within one row and one column of the cell, the cell excluded.
Adjacent(cell) ==
    {c \in Cells : /\ c # cell
                   /\ c[1] - cell[1] \in {-1, 0, 1}
                   /\ c[2] - cell[2] \in {-1, 0, 1}}

\* ---------------------------------------------------------------- C1
\* C1: after any sequence of truthful observations of non-mine cells of one
\* board, mines and safes are disjoint, every cell of mines is a mine of the
\* board and no cell of safes is.
C1_Sound ==
    /\ mines \cap safes = {}
    /\ mines \subseteq board
    /\ safes \cap board = {}

\* Both kinds of deduction were made: a mine is known, and so is a safe cell
\* that was never observed.
C1_Witness ==
    /\ last.op = "add_knowledge"
    /\ mines # {}
    /\ safes \ moves_made # {}

\* ---------------------------------------------------------------- C2
\* C2: when apply_knowledge has returned inside add_knowledge, no cell of a
\* sentence of the knowledge list is in safes or in mines.
C2_ClosedCellsUndetermined ==
    \A i \in DOMAIN closed.knowledge :
        closed.knowledge[i].cells \cap (closed.safes \cup closed.mines) = {}

\* ---------------------------------------------------------------- C3
\* C3: when apply_knowledge returns (inside add_knowledge, or called
\* directly), no sentence of the knowledge list has an empty cell set, a
\* count of 0 or a count equal to the size of its cell set.
NoDeduction(kn) ==
    \A i \in DOMAIN kn :
        /\ kn[i].cells # {}
        /\ kn[i].count # 0
        /\ kn[i].count # Cardinality(kn[i].cells)

C3_Fixpoint ==
    /\ NoDeduction(closed.knowledge)
    /\ last.op = "apply_knowledge" => NoDeduction(knowledge)

\* Closure had deductions to make and left sentences behind.
C3_Witness ==
    /\ last.op = "add_knowledge"
    /\ ~NoDeduction(pre.knowledge)
    /\ closed.mines # pre.mines
    /\ closed.knowledge # <<>>

\* ---------------------------------------------------------------- C4
\* C4: generate_new_knowledge returns one sentence per ordered pair (A, B)
\* of entries of the knowledge list that differ by value with A.cells a
\* subset of B.cells and B.cells \ A.cells non-empty, that sentence being
\* (B.cells \ A.cells, B.count - A.count), and nothing else; no returned
\* sentence has an empty cell set.
SubsetPairs(kn) ==
    {p \in (DOMAIN kn) \X (DOMAIN kn) :
        /\ kn[p[1]] # kn[p[2]]
        /\ kn[p[1]].cells \subseteq kn[p[2]].cells
        /\ kn[p[2]].cells \ kn[p[1]].cells # {}}

Difference(kn, p) ==
    [cells |-> kn[p[2]].cells \ kn[p[1]].cells,
     count |-> kn[p[2]].count - kn[p[1]].count]

C4_ResolutionExact ==
    LET kn == closed.knowledge
        expected == {Difference(kn, p) : p \in SubsetPairs(kn)}
    IN  /\ Len(new_knowledge) = Cardinality(SubsetPairs(kn))
        /\ Range(new_knowledge) = expected
        /\ \A e \in expected :
               Occurrences(new_knowledge, e) =
                   Cardinality({p \in SubsetPairs(kn) : Difference(kn, p) = e})
        /\ \A i \in DOMAIN new_knowledge : new_knowledge[i].cells # {}

\* Resolution returned several sentences, one of them more than once.
C4_Witness ==
    /\ last.op = "add_knowledge"
    /\ Cardinality(Range(new_knowledge)) >= 2
    /\ \E e \in Range(new_knowledge) : Occurrences(new_knowledge, e) >= 2

\* ---------------------------------------------------------------- C5
\* C5: for two true sentences A and B of the list resolution worked on,
\* A.cells a proper subset of B.cells, after the next run of closure every
\* cell of B.cells \ A.cells is in mines if B.count - A.count is the size of
\* the difference, and in safes if B.count - A.count is 0.
DeterminedMines(kn) ==
    UNION {Difference(kn, p).cells : p \in
             {q \in SubsetPairs(kn) :
                 /\ TrueOfBoard(kn[q[1]]) /\ TrueOfBoard(kn[q[2]])
                 /\ Difference(kn, q).count = Cardinality(Difference(kn, q).cells)}}

DeterminedSafes(kn) ==
    UNION {Difference(kn, p).cells : p \in
             {q \in SubsetPairs(kn) :
                 /\ TrueOfBoard(kn[q[1]]) /\ TrueOfBoard(kn[q[2]])
                 /\ Difference(kn, q).count = 0}}

C5_ResolvedByNextClosure ==
    /\ DeterminedMines(prev_closed.knowledge) \subseteq mines
    /\ DeterminedSafes(prev_closed.knowledge) \subseteq safes

\* The list resolution worked on held such a pair whose difference was all
\* mines, none of them known yet, and add_knowledge has run closure since.
C5_Witness ==
    /\ last.op = "add_knowledge"
    /\ DeterminedMines(prev_closed.knowledge) \ prev_closed.mines # {}

\* ---------------------------------------------------------------- C6
\* C6: after add_knowledge(cell, 0), every neighbour of cell that was not
\* in moves_made at the call is in safes and in no sentence of the knowledge
\* list; on a fresh store mines is still empty.
C6_ZeroCount ==
    (last.op = "add_knowledge" /\ last.count = 0) =>
        \A cell \in last.cell :
            /\ \A n \in Adjacent(cell) \ pre.moves_made :
                   /\ n \in safes
                   /\ \A i \in DOMAIN knowledge : n \notin knowledge[i].cells
            /\ nobs = 1 => mines = {}

\* A zero count was observed on a store that already held sentences, with
\* hidden neighbours not yet known to be safe.
C6_Witness ==
    /\ last.op = "add_knowledge" /\ last.count = 0
    /\ nobs >= 2
    /\ knowledge # <<>>
    /\ \E cell \in last.cell :
           (Adjacent(cell) \ pre.moves_made) \ (pre.safes \ {cell}) # {}

\* ---------------------------------------------------------------- C7
\* C7: make_safe_move returns a cell of safes \ moves_made, and None exactly
\* when that set is empty; make_random_move returns a board cell in none of
\* moves_made, mines and safes, and None exactly when there is no such cell.
C7_Moves ==
    /\ last.op = "make_safe_move" =>
           /\ raised = "none"
           /\ last.ret \subseteq safes \ moves_made
           /\ last.ret = {} <=> safes \ moves_made = {}
    /\ last.op = "make_random_move" =>
           /\ raised = "none"
           /\ last.ret \subseteq Cells \ (moves_made \cup mines \cup safes)
           /\ last.ret = {} <=> Cells \subseteq (moves_made \cup mines \cup safes)

\* ---------------------------------------------------------------- C8
\* C8: every sentence of the knowledge list has 0 <= count <= |cells|,
\* the sentences appended by resolution and those changed by mark_mine and
\* mark_safe included.
InRange(kn) ==
    \A i \in DOMAIN kn :
        0 <= kn[i].count /\ kn[i].count <= Cardinality(kn[i].cells)

C8_CountInRange ==
    /\ InRange(knowledge)
    /\ InRange(pre.knowledge)
    /\ InRange(closed.knowledge)

\* Resolution appended sentences to a list whose sentences had been changed
\* in place by the marking of a mine and of safe cells.
C8_Witness ==
    /\ last.op = "add_knowledge"
    /\ new_knowledge # <<>>
    /\ mines # {}
    /\ pre.knowledge # <<>>

\* ---------------------------------------------------------------- C9
\* C9: a run of apply_knowledge right after a run of apply_knowledge leaves
\* mines, safes, moves_made and the knowledge list as they are.
C9_ClosureIdempotent ==
    [][(last.op = "apply_knowledge" /\ last'.op = "apply_knowledge") =>
           UNCHANGED <<mines, safes, moves_made, knowledge>>]_vars

\* Closure ran twice in a row, and the first run had sentences to remove.
C9_Witness ==
    /\ reapplied
    /\ knowledge # <<>>
    /\ Len(knowledge) < Len(closed.knowledge) + Len(new_knowledge)

\* ---------------------------------------------------------------- C10
\* C10: closure removes the sentences whose cell set has become empty, and
\* when add_knowledge returns no sentence of the knowledge list has an empty
\* cell set.
NoEmpty(kn) == \A i \in DOMAIN kn : Cardinality(kn[i].cells) > 0

C10_NoEmptySentence ==
    /\ NoEmpty(closed.knowledge)
    /\ last.op = "add_knowledge" => NoEmpty(knowledge)

\* Sentences were emptied and removed by closure, others stayed.
C10_Witness ==
    /\ last.op = "add_knowledge"
    /\ Len(closed.knowledge) < Len(pre.knowledge)
    /\ closed.knowledge # <<>>

\* ---------------------------------------------------------------- C11
\* C11: every operation of the store leaves moves_made, safes and mines at
\* least as large as they were: each set after the step contains the set
\* before it.
C11_SetsOnlyGrow ==
    [][/\ moves_made \subseteq moves_made'
       /\ safes \subseteq safes'
       /\ mines \subseteq mines']_vars

\* All three sets are non-empty, and a direct mark was made after an
\* observation had already put sentences in the list.
C11_Witness ==
    /\ last.op \in {"mark_mine", "mark_safe"}
    /\ moves_made # {}
    /\ mines # {}
    /\ Cardinality(safes) > Cardinality(moves_made)
    /\ pre.knowledge # <<>>

\* ---------------------------------------------------------------- C12
\* C12: add_knowledge called a second time with the same cell and count,
\* right after the first call returned, leaves moves_made and safes as the
\* first call left them.
C12_RepeatKeepsMovesAndSafes ==
    [][repeated' => (moves_made' = moves_made /\ safes' = safes)]_vars

\* The cells of the sentences of a list.
CellsOf(kn) == UNION {kn[i].cells : i \in DOMAIN kn}

\* C12, as amended: the second call leaves moves_made as the first call left
\* it, with the observed cell in moves_made and in safes before and after;
\* safes keeps every cell it had and gains only cells of the sentences that
\* were in the list when the second call started.
C12_RepeatKeepsMoves ==
    [][repeated' =>
          /\ moves_made' = moves_made
          /\ last'.cell \subseteq (moves_made \cap safes)
          /\ safes \subseteq safes'
          /\ safes' \ safes \subseteq CellsOf(knowledge)]_vars

\* The second of two identical calls has added cells to safes.
C12_Witness ==
    /\ repeated
    /\ safes # prev_closed.safes
    /\ moves_made = prev_closed.moves_made

\* ---------------------------------------------------------------- C13
\* C13: add_knowledge with a cell outside the board ends with an exception
\* and leaves the knowledge list exactly as it was before the call.
C13_OutsideRejected ==
    [][(last'.op = "add_knowledge" /\ last'.cell \cap Cells = {}) =>
          /\ raised' # "none"
          /\ knowledge' = knowledge]_vars

\* A call for a cell off the board was made on a store holding sentences.
C13_Witness ==
    /\ last.op = "add_knowledge"
    /\ last.cell \cap Cells = {}
    /\ raised = "KeyError"
    /\ knowledge # <<>>
    /\ Cardinality(moves_made) >= 2

\* ---------------------------------------------------------------- C14
\* C14: make_safe_move and make_random_move leave moves_made, safes, mines
\* and the knowledge list as they are, whether they return a cell, return
\* None or raise.
C14_QueriesArePure ==
    [][last'.op \in {"make_safe_move", "make_random_move"} =>
          UNCHANGED <<moves_made, safes, mines, knowledge>>]_vars

\* A move query returned a cell from a store that holds sentences, mines
\* and safe cells not yet played.
C14_Witness ==
    /\ last.op \in {"make_safe_move", "make_random_move"}
    /\ last.ret # None
    /\ knowledge # <<>>
    /\ mines # {}
    /\ safes # moves_made

\* ---------------------------------------------------------------- C15
\* C15: known_mines returns the cell set exactly when the count equals the
\* number of cells and the cell set is not empty, and None otherwise; for
\* the sentence with no cells and count 0 it returns None.
C15_KnownMinesNonEmpty ==
    last.op = "known_mines" =>
        last.ret = IF Cardinality(a_sentence.cells) = a_sentence.count
                      /\ a_sentence.cells # {}
                   THEN Some(a_sentence.cells)
                   ELSE None

\* C15, as amended: known_mines returns the cell set exactly when the count
\* equals the number of cells, and None otherwise; for the sentence with no
\* cells and count 0 it returns the empty cell set, which is not None.
C15_KnownMines ==
    last.op = "known_mines" =>
        /\ Cardinality(a_sentence.cells) = a_sentence.count
               => last.ret = Some(a_sentence.cells)
        /\ Cardinality(a_sentence.cells) # a_sentence.count
               => last.ret = None
        /\ a_sentence = Sentence({}, 0)
               => (last.ret = Some({}) /\ last.ret # None)

\* known_mines was called on the sentence with no cells and count 0.
C15_Witness ==
    /\ last.op = "known_mines"
    /\ a_sentence = Sentence({}, 0)
    /\ last.ret = Some({})

\* ---------------------------------------------------------------- C16
\* C16: when add_knowledge returns, mines and safes are what closure left,
\* and the knowledge list is the closed list followed by the sentences
\* resolution returned; a sentence resolution returned with count 0 or with
\* count = number of cells is in the list with none of its cells in safes
\* or mines.
C16_ClosureThenResolution ==
    last.op = "add_knowledge" =>
        /\ mines = closed.mines
        /\ safes = closed.safes
        /\ knowledge = closed.knowledge \o new_knowledge
        /\ \A i \in DOMAIN new_knowledge :
              (known_safes(new_knowledge[i]) # None
                  \/ known_mines(new_knowledge[i]) # None) =>
                 /\ knowledge[Len(closed.knowledge) + i] = new_knowledge[i]
                 /\ new_knowledge[i].cells \cap (safes \cup mines) = {}

\* ---------------------------------------------------------------- C17
\* C17: mark_mine(cell) adds the cell to mines and, in every sentence of the
\* list that contains the cell, removes it and lowers the count by exactly
\* one; mark_safe(cell) adds the cell to safes and removes it from every
\* sentence that contains it, with the count as it was. Sentences without
\* the cell and moves_made stay as they are, and afterwards no sentence
\* contains the cell.
MarkedCell == CHOOSE c \in last.cell : TRUE

\* kn is the list before, with the cell taken out of the sentences that had
\* it and their counts lowered by dec.
Struck(before, kn, cell, dec) ==
    /\ Len(kn) = Len(before)
    /\ \A i \in DOMAIN before :
          IF cell \in before[i].cells
          THEN /\ kn[i].cells = before[i].cells \ {cell}
               /\ kn[i].count = before[i].count - dec
          ELSE kn[i] = before[i]
    /\ \A i \in DOMAIN kn : cell \notin kn[i].cells

C17_MarksStrikeEverywhere ==
    /\ last.op = "mark_mine" =>
          /\ mines = pre.mines \cup {MarkedCell}
          /\ safes = pre.safes
          /\ moves_made = pre.moves_made
          /\ Struck(pre.knowledge, knowledge, MarkedCell, 1)
    /\ last.op = "mark_safe" =>
          /\ safes = pre.safes \cup {MarkedCell}
          /\ mines = pre.mines
          /\ moves_made = pre.moves_made
          /\ Struck(pre.knowledge, knowledge, MarkedCell, 0)

\* A cell was marked as a mine while two sentences of the list held it and
\* a third did not.
C17_Witness ==
    /\ last.op = "mark_mine"
    /\ \E i, j, k \in DOMAIN pre.knowledge :
          /\ i # j
          /\ MarkedCell \in pre.knowledge[i].cells
          /\ MarkedCell \in pre.knowledge[j].cells
          /\ MarkedCell \notin pre.knowledge[k].cells
          /\ knowledge[k].cells # {}

\* ---------------------------------------------------------------- C18
\* C18: on a list of sentences with 0 <= count <= number of cells, closure
\* never fails (the removal of an empty snapshot sentence finds an equal one
\* in the live list), every pass that sets the repeat flag makes the list
\* shorter or lowers the total number of cells in it, a pass that leaves
\* the flag unset changes nothing, and such a pass is eventually reached.
RECURSIVE TotalCells(_)
TotalCells(kn) ==
    IF kn = <<>> THEN 0
    ELSE Cardinality(Head(kn).cells) + TotalCells(Tail(kn))

Returned == last = Op("pass", None, 0, Some(FALSE))

C18_ClosureTerminates ==
    /\ [](raised = "none")
    /\ [][/\ last' = Op("pass", None, 0, Some(TRUE)) =>
              \/ Len(knowledge') < Len(knowledge)
              \/ TotalCells(knowledge') < TotalCells(knowledge)
          /\ last' = Op("pass", None, 0, Some(FALSE)) =>
              UNCHANGED <<knowledge, mines, safes, moves_made>>]_vars
    /\ <>Returned

\* Closure has returned after marking mines and safe cells and removing
\* every sentence of a list of full length.
C18_Witness ==
    /\ Returned
    /\ Len(pre.knowledge) = MaxLen
    /\ knowledge = <<>>
    /\ mines # {}
    /\ safes # {}

\* ---------------------------------------------------------------- C19
\* The list in every processing order.
Orders(kn) ==
    {[i \in DOMAIN kn |-> kn[f[i]]] : f \in Permutations(DOMAIN kn)}

\* Two stores with the same mines, the same safes and the same sentences,
\* each as many times in one list as in the other.
SameFixpoint(a, b) ==
    /\ a.mines = b.mines
    /\ a.safes = b.safes
    /\ Len(a.knowledge) = Len(b.knowledge)
    /\ \A i \in DOMAIN a.knowledge :
          Cardinality({k \in DOMAIN a.knowledge : a.knowledge[k] = a.knowledge[i]})
              = Cardinality({k \in DOMAIN b.knowledge : b.knowledge[k] = a.knowledge[i]})

\* Closure run on the store it was called on, the list put in every order,
\* ends as the run that has just returned.
OrderIndependent ==
    \A q \in Orders(pre.knowledge) :
        SameFixpoint(apply_knowledge([pre EXCEPT !.knowledge = q]), Cur)

\* Some placement of mines makes every sentence of the list true.
Consistent(kn) ==
    \E b \in SUBSET CellsOf(kn) :
        \A i \in DOMAIN kn : Cardinality(kn[i].cells \cap b) = kn[i].count

C20_NoMoveInSentences ==
    last.op = "add_knowledge" =>
        \A i \in DOMAIN knowledge : knowledge[i].cells \cap moves_made = {}

\* add_knowledge returned with sentences in the list, after the observed
\* cell was struck from an earlier sentence and with resolution having
\* added a sentence, two moves made or more.
C20_Witness ==
    /\ last.op = "add_knowledge"
    /\ Cardinality(moves_made) >= 2
    /\ new_knowledge # <<>>
    /\ \E i \in DOMAIN prev_closed.knowledge :
          last.cell \cap prev_closed.knowledge[i].cells # {}
    /\ \E i \in DOMAIN knowledge, m \in moves_made :
          knowledge[i].cells \cap Adjacent(m) # {}

====
